---- MODULE Spec2Model ----
(***************************************************************************)
(* The fixed-point driver `typeset` (src/model/mod.rs), the `measure`      *)
(* library function (library/src/layout/measure.rs) and the outline        *)
(* element (library/src/meta/outline.rs), as a state machine.              *)
(*                                                                         *)
(* Three further specifications follow single functions: ShowSpec the loop *)
(* of OutlineNode::show over arbitrary located headings, GlyphSpec the     *)
(* blending loop of render_outline_glyph (src/export/render.rs) with its   *)
(* i32 index arithmetic, BlendSpec the packed-colour functions alpha_mul   *)
(* and blend_src_over.  Each leaves the variables of the others idle.      *)
(*                                                                         *)
(* The layout engine behind `library.items.layout`, the Introspector, the  *)
(* StabilityProvider and `Content::measure` are modelled from the design   *)
(* document: a page holds PageCap lines, a located node is a heading, and  *)
(* the only introspection query is locate(heading).                        *)
(***************************************************************************)
EXTENDS Integers, Sequences, FiniteSets, TLC

(***************************************************************************)
(* Bounds of the model.                                                    *)
(***************************************************************************)
\* Longest root content (number of top-level elements).
MaxLen == 3
\* Lines that fit on one page.
PageCap == 2

(***************************************************************************)
(* Program constants.                                                      *)
(***************************************************************************)
\* `if iter >= 5 || ...` : the attempt cap of the driver loop.
MaxIter == 5
\* `loc.pos -= Point::splat(Abs::pt(10.0))`
LinkShift == 10
\* Abs::inf(): larger than every finite length of the model.
AbsInf == 1000000

\* let x = value in F(x): the value is written, and evaluated, once.
With(value, F(_)) == F(value)

Min(a, b) == IF a <= b THEN a ELSE b
Max(a, b) == IF a >= b THEN a ELSE b

\* Option<NonZeroUsize>::None for the outline depth.
NoDepth == 0

(***************************************************************************)
(* Content.  The root content is a sequence of elements.                   *)
(***************************************************************************)
\* HeadingNode values: level, title, the `outlined` and `numbers` fields.
\* numbers = "" stands for a non-string value (no numbering).
Heading(level, title, outlined, numbers) ==
    [kind |-> "heading", level |-> level, title |-> title,
     outlined |-> outlined, numbers |-> numbers]

\* OutlineNode with the style properties its show rule reads.
\* title: "none" (no title), "auto" (by language) or the custom title.
\* fill: "none" or the filler content ("bad": content that cannot be laid out).
Outline(title, lang, depth, indent, fill) ==
    [kind |-> "outline", title |-> title, lang |-> lang, depth |-> depth,
     indent |-> indent, fill |-> fill]

\* A node whose shown height depends on the page of the first heading:
\* the self-referential input of the convergence bound.
\*   mode "osc" : a full page when that page is odd, nothing otherwise
\*   mode "grow": Min(page, limit) full pages
PageDep(mode, limit) == [kind |-> "pagedep", mode |-> mode, limit |-> limit]

\* style(styles => measure(body, styles)) followed by a line of text.
MeasureCall(body, styles) == [kind |-> "measure", body |-> body, styles |-> styles]

\* A box of fixed natural size, scaled by the text size of the styles.
Box(w, h) == [kind |-> "box", w |-> w, h |-> h]

\* A node that is asked for a capability it does not declare.
Bad == [kind |-> "bad"]

DefaultOutline == Outline("auto", "en", NoDepth, FALSE, ".")
DeepOutline    == Outline("none", "en", 1, TRUE, "none")
BadFillOutline == Outline("auto", "de", NoDepth, FALSE, "bad")

H1 == Heading(1, "Intro", TRUE, "1.")
H2 == Heading(2, "Sub", TRUE, "1.a.")
HN == Heading(1, "Hidden", FALSE, "")

Elements ==
    { DefaultOutline, DeepOutline, BadFillOutline, H1, H2, HN,
      PageDep("osc", 0), PageDep("grow", 2), PageDep("grow", 3),
      MeasureCall(Box(3, 1), 1), MeasureCall(Box(3, 1), 2),
      MeasureCall(DefaultOutline, 1), Bad }

RECURSIVE SeqsUpTo(_, _)
SeqsUpTo(S, n) ==
    IF n = 0 THEN { <<>> }
    ELSE LET shorter == SeqsUpTo(S, n - 1)
         IN  shorter \cup { Append(s, e) : s \in shorter, e \in S }

Contents == SeqsUpTo(Elements, MaxLen) \ { <<>> }

(***************************************************************************)
(* Documents: a sequence of pages, a page a sequence of laid-out lines.    *)
(***************************************************************************)
PageCount(lines) == (Len(lines) + PageCap - 1) \div PageCap

Paginate(lines) ==
    [p \in 1..PageCount(lines) |->
        SubSeq(lines, (p - 1) * PageCap + 1, Min(p * PageCap, Len(lines)))]

DocumentOf(lines) == [pages |-> Paginate(lines)]

EmptyPages == << >>

(***************************************************************************)
(* Introspector: the index built from the pages of a finished pass.        *)
(***************************************************************************)
\* The located node with its `loc` field: page number and position.
Located(el, p, i) ==
    [id |-> el.id,
     node |-> [kind |-> "heading", level |-> el.level, title |-> el.title,
               outlined |-> el.outlined, numbers |-> el.numbers,
               loc |-> [page |-> p, pos |-> [x |-> 0, y |-> i - 1]]]]

RECURSIVE Collect(_, _, _)
Collect(pages, p, i) ==
    IF p > Len(pages) THEN << >>
    ELSE IF i > Len(pages[p]) THEN Collect(pages, p + 1, 1)
    ELSE IF pages[p][i].kind = "heading"
         THEN << Located(pages[p][i], p, i) >> \o Collect(pages, p, i + 1)
         ELSE Collect(pages, p, i + 1)

IntrospectorNew(pages) == [nodes |-> Collect(pages, 1, 1)]

\* Selector::node::<HeadingNode>()
HeadingSelector == "heading"

Locate(intro, selector) ==
    SelectSeq(intro.nodes, LAMBDA e : e.node.kind = selector)

\* One tracked call as the constraint records it.
Call(intro, selector) ==
    [call |-> << "locate", selector >>, ret |-> Locate(intro, selector)]

ConstraintNew == << >>

\* introspector.valid(&constraint)
Valid(intro, constraint) ==
    \A i \in 1..Len(constraint) :
        Locate(intro, constraint[i].call[2]) = constraint[i].ret

(***************************************************************************)
(* StabilityProvider: per hash, how many nodes of that hash were seen.     *)
(***************************************************************************)
StabilityProviderNew == [h \in {} |-> 0]

Seen(provider, hash) == IF hash \in DOMAIN provider THEN provider[hash] ELSE 0

Identify(provider, hash) ==
    [id |-> << hash, Seen(provider, hash) >>,
     provider |-> (hash :> (Seen(provider, hash) + 1)) @@ provider]

(***************************************************************************)
(* OutlineNode: Prepare and Show.                                          *)
(***************************************************************************)
DigitChar == << "0", "1", "2", "3", "4", "5", "6", "7", "8", "9" >>

\* format_eco!("{}", n): the decimal digits of n, most significant first.
RECURSIVE Digits(_)
Digits(n) ==
    IF n < 10 THEN << DigitChar[n + 1] >>
    ELSE Append(Digits(n \div 10), DigitChar[(n % 10) + 1])

\* The `headings` field that prepare pushes: the outlined headings.
OutlinePrepare(located) ==
    SelectSeq([i \in 1..Len(located) |-> located[i].node],
              LAMBDA node : node.outlined = TRUE)

\* The title heading of the outline, if any.
OutlineTitle(st) ==
    IF st.title = "none" THEN << >>
    ELSE << Heading(1,
                    IF st.title = "auto"
                    THEN (IF st.lang = "de" THEN "Inhaltsverzeichnis" ELSE "Contents")
                    ELSE st.title,
                    FALSE, "") >>

\* The stack that pops only headings of a greater level.
PopAncestors_KeepEqual(ancestors, level) ==
    LET keep == { n \in 0..Len(ancestors) :
                    \A k \in (n + 1)..Len(ancestors) : ancestors[k].level > level }
    IN  SubSeq(ancestors, 1, CHOOSE n \in keep : \A m \in keep : n <= m)

\* while ancestors.last().level >= heading.level { ancestors.pop() }
RECURSIVE PopAncestors(_, _)
PopAncestors(ancestors, level) ==
    IF Len(ancestors) > 0 /\ ancestors[Len(ancestors)].level >= level
    THEN PopAncestors(SubSeq(ancestors, 1, Len(ancestors) - 1), level)
    ELSE ancestors

\* The numberings of the ancestors, each followed by a space.
RECURSIVE AncestorText(_)
AncestorText(ancestors) ==
    IF ancestors = << >> THEN << >>
    ELSE (IF Head(ancestors).numbers # ""
          THEN << Head(ancestors).numbers, " " >>
          ELSE << >>) \o AncestorText(Tail(ancestors))

Space == [kind |-> "space"]
Linebreak == [kind |-> "linebreak", justify |-> FALSE]

\* The entry with the zero-based page index in place of the page number.
OutlineEntry_PageIndex(st, node, ancestors) ==
    LET loc == [page |-> node.loc.page,
                pos |-> [x |-> node.loc.pos.x - LinkShift,
                         y |-> node.loc.pos.y - LinkShift]]
        text == AncestorText(ancestors)
        hidden == IF st.indent /\ text # << >>
                  THEN << [kind |-> "hide", text |-> text], Space >>
                  ELSE << >>
        numbering == IF node.numbers # "" THEN << node.numbers, " " >> ELSE << >>
        start == [kind |-> "link", text |-> numbering \o << node.title >>, dest |-> loc]
        filler == IF st.fill # "none"
                  THEN << Space, [kind |-> "repeat", body |-> st.fill], Space >>
                  ELSE << [kind |-> "h", amount |-> "1fr", weak |-> FALSE] >>
        end == [kind |-> "link", text |-> Digits(loc.page - 1), dest |-> loc]
    IN  hidden \o << start >> \o filler \o << end, Linebreak >>

\* What one included heading pushes onto seq.
OutlineEntry(st, node, ancestors) ==
    LET loc == [page |-> node.loc.page,
                pos |-> [x |-> node.loc.pos.x - LinkShift,
                         y |-> node.loc.pos.y - LinkShift]]
        text == AncestorText(ancestors)
        hidden == IF st.indent /\ text # << >>
                  THEN << [kind |-> "hide", text |-> text], Space >>
                  ELSE << >>
        numbering == IF node.numbers # "" THEN << node.numbers, " " >> ELSE << >>
        start == [kind |-> "link", text |-> numbering \o << node.title >>, dest |-> loc]
        filler == IF st.fill # "none"
                  THEN << Space, [kind |-> "repeat", body |-> st.fill], Space >>
                  ELSE << [kind |-> "h", amount |-> "1fr", weak |-> FALSE] >>
        end == [kind |-> "link", text |-> Digits(loc.page), dest |-> loc]
    IN  hidden \o << start >> \o filler \o << end, Linebreak >>

\* The loop over the located headings, from heading i on.
RECURSIVE ShowHeadings(_, _, _, _)
ShowHeadings(st, located, i, ancestors) ==
    IF i > Len(located) THEN << >>
    ELSE LET node == located[i].node IN
         IF node.outlined # TRUE
         THEN ShowHeadings(st, located, i + 1, ancestors)
         ELSE IF st.depth # NoDepth /\ st.depth < node.level
         THEN ShowHeadings(st, located, i + 1, ancestors)
         ELSE LET anc == PopAncestors(ancestors, node.level)
              IN  OutlineEntry(st, node, anc)
                  \o ShowHeadings(st, located, i + 1, Append(anc, node))

\* OutlineNode::show: the sequence inside the block it returns.
OutlineShow(st, located) ==
    OutlineTitle(st) \o ShowHeadings(st, located, 1, << >>)

(***************************************************************************)
(* The realization and layout engine behind `library.items.layout`.        *)
(* vm = [provider, introspector, constraint]: the tracked provider and the *)
(* introspector tracked with the constraint of the running pass.           *)
(***************************************************************************)
\* vt.locate(selector) on the tracked introspector: answers and records.
TrackedLocate(vm, selector) ==
    [ret |-> Locate(vm.introspector, selector),
     vm |-> [vm EXCEPT !.constraint = Append(@, Call(vm.introspector, selector))]]

HeadingLine(node, id) ==
    [kind |-> "heading", id |-> id, level |-> node.level, title |-> node.title,
     outlined |-> node.outlined, numbers |-> node.numbers]

FillLine == [kind |-> "fill"]

\* Content that no layout handler accepts.
CannotLayout(seq) ==
    \E i \in 1..Len(seq) : seq[i].kind = "repeat" /\ seq[i].body = "bad"

\* Flow of a shown sequence: a heading is a located block of its own line,
\* a linebreak ends the line of the items before it.
RECURSIVE FlowLines(_, _, _)
FlowLines(seq, cur, provider) ==
    IF seq = << >> THEN [lines |-> << >>, provider |-> provider]
    ELSE IF Head(seq).kind = "heading"
    THEN With(Identify(provider, Head(seq)), LAMBDA idn :
         With(FlowLines(Tail(seq), << >>, idn.provider), LAMBDA rest :
            [lines |-> << HeadingLine(Head(seq), idn.id) >> \o rest.lines,
             provider |-> rest.provider]))
    ELSE IF Head(seq).kind = "linebreak"
    THEN With(FlowLines(Tail(seq), << >>, provider), LAMBDA rest :
            [lines |-> << [kind |-> "entry", items |-> cur] >> \o rest.lines,
             provider |-> rest.provider])
    ELSE FlowLines(Tail(seq), Append(cur, Head(seq)), provider)

\* Height in lines of a page-dependent node, from the page of the first heading.
PageDepLines(elem, located) ==
    LET p == IF located = << >> THEN 0 ELSE located[1].node.loc.page
    IN  IF elem.mode = "osc"
        THEN (IF p % 2 = 1 THEN PageCap ELSE 0)
        ELSE Min(p, elem.limit) * PageCap

\* Prepare (one locate for the `headings` field), Show (one locate for the
\* entries) and Layout of an outline.
RealizeOutline(vm, elem) ==
    With(TrackedLocate(vm, HeadingSelector), LAMBDA prep :
    With([headings |-> OutlinePrepare(prep.ret)] @@ elem, LAMBDA this :
    With(TrackedLocate(prep.vm, HeadingSelector), LAMBDA shown :
    With(OutlineShow(this, shown.ret), LAMBDA seq :
        IF CannotLayout(seq)
        THEN [err |-> TRUE, lines |-> << >>, vm |-> shown.vm]
        ELSE With(FlowLines(seq, << >>, vm.provider), LAMBDA flow :
                [err |-> FALSE, lines |-> flow.lines,
                 vm |-> [shown.vm EXCEPT !.provider = flow.provider]])))))

\* Prepare, Show and Layout of one node: the lines it produces, the vm after.
Realize(vm, elem) ==
    IF elem.kind = "heading"
    THEN With(Identify(vm.provider, elem), LAMBDA idn :
            [err |-> FALSE, lines |-> << HeadingLine(elem, idn.id) >>,
             vm |-> [vm EXCEPT !.provider = idn.provider]])
    ELSE IF elem.kind = "outline"
    THEN RealizeOutline(vm, elem)
    ELSE IF elem.kind = "pagedep"
    THEN With(TrackedLocate(vm, HeadingSelector), LAMBDA q :
            [err |-> FALSE,
             lines |-> [i \in 1..PageDepLines(elem, q.ret) |-> FillLine],
             vm |-> q.vm])
    ELSE IF elem.kind = "box"
    THEN [err |-> FALSE, lines |-> [i \in 1..elem.h |-> FillLine], vm |-> vm]
    ELSE [err |-> TRUE, lines |-> << >>, vm |-> vm]

(***************************************************************************)
(* Regions, frames and measuring.                                          *)
(***************************************************************************)
AxesSplat(v) == [x |-> v, y |-> v]

\* Regions::one(size, expand)
RegionsOne(size, expand) ==
    [size |-> size, full |-> size.y, backlog |-> << >>, last |-> "none",
     expand |-> expand]

\* StyleChain::new(&styles): a chain of one link.
StyleChainNew(styles) == << styles >>

TextSize(chain) == Head(chain)

LineWidth(line) == IF line.kind = "entry" THEN Len(line.items) ELSE 1

RECURSIVE MaxWidth(_)
MaxWidth(lines) ==
    IF lines = << >> THEN 0 ELSE Max(LineWidth(Head(lines)), MaxWidth(Tail(lines)))

NaturalSize(elem, lines, chain) ==
    [x |-> (IF elem.kind = "box" THEN elem.w ELSE MaxWidth(lines)) * TextSize(chain),
     y |-> Len(lines) * TextSize(chain)]

\* The frame of content laid out into the first region: an expanding axis
\* takes the size of the region, the other the natural size that fits.
FrameIn(natural, regions) ==
    [size |-> [x |-> IF regions.expand.x THEN regions.size.x
                     ELSE Min(natural.x, regions.size.x),
               y |-> IF regions.expand.y THEN regions.size.y
                     ELSE Min(natural.y, regions.size.y)]]

\* content.layout(vm, styles, regions)
ContentLayout(vm, body, chain, regions) ==
    With(Realize(vm, body), LAMBDA r :
        [err |-> r.err, vm |-> r.vm,
         frame |-> FrameIn(NaturalSize(body, r.lines, chain), regions)])

\* content.measure(vm, styles, regions): a layout whose Locations do not
\* persist (the provider is saved before and restored after).
ContentMeasure(vm, body, chain, regions) ==
    With(ContentLayout(vm, body, chain, regions), LAMBDA r :
        [err |-> r.err, frame |-> r.frame,
         vm |-> [r.vm EXCEPT !.provider = vm.provider]])

NoValue == [width |-> 0 - 1, height |-> 0 - 1]

\* measure through content.layout: the Locations of the measured content
\* stay registered with the provider.
measure_ByLayout(vm, body, styles) ==
    LET pod == RegionsOne(AxesSplat(AbsInf), AxesSplat(FALSE))
        chain == StyleChainNew(styles)
    IN  With(ContentLayout(vm, body, chain, pod), LAMBDA m :
            IF m.err
            THEN [err |-> TRUE, value |-> NoValue, vm |-> m.vm, pod |-> pod,
                  frame |-> m.frame]
            ELSE [err |-> FALSE,
                  value |-> [width |-> m.frame.size.x, height |-> m.frame.size.y],
                  vm |-> m.vm, pod |-> pod, frame |-> m.frame])

\* measure with the axes of the size mixed up.
measure_Swapped(vm, body, styles) ==
    LET pod == RegionsOne(AxesSplat(AbsInf), AxesSplat(FALSE))
        chain == StyleChainNew(styles)
    IN  With(ContentMeasure(vm, body, chain, pod), LAMBDA m :
            IF m.err
            THEN [err |-> TRUE, value |-> NoValue, vm |-> m.vm, pod |-> pod,
                  frame |-> m.frame]
            ELSE [err |-> FALSE,
                  value |-> [width |-> m.frame.size.y, height |-> m.frame.size.x],
                  vm |-> m.vm, pod |-> pod, frame |-> m.frame])

\* measure(content, styles): the dictionary returned, the vm after the
\* call, and (for observation) the regions used and the frame discarded.
measure(vm, body, styles) ==
    LET pod == RegionsOne(AxesSplat(AbsInf), AxesSplat(FALSE))
        chain == StyleChainNew(styles)
    IN  With(ContentMeasure(vm, body, chain, pod), LAMBDA m :
            IF m.err
            THEN [err |-> TRUE, value |-> NoValue, vm |-> m.vm, pod |-> pod,
                  frame |-> m.frame]
            ELSE [err |-> FALSE,
                  value |-> [width |-> m.frame.size.x, height |-> m.frame.size.y],
                  vm |-> m.vm, pod |-> pod, frame |-> m.frame])

\* One top-level element of the root content: a measure call is followed
\* by one line of text showing the measured width.
LayoutElement(vm, elem) ==
    IF elem.kind = "measure"
    THEN With(measure(vm, elem.body, elem.styles), LAMBDA m :
            [err |-> m.err,
             lines |-> IF m.err THEN << >>
                       ELSE << [kind |-> "text", text |-> Digits(m.value.width)] >>,
             vm |-> m.vm, call |-> m])
    ELSE Realize(vm, elem)

(***************************************************************************)
(* typeset: the driver loop.                                               *)
(***************************************************************************)
VARIABLES
    content,       \* the root content being typeset
    pc,            \* "loop", "layout", "built", "break", "done"
    iter,          \* passes completed
    introspector,  \* the working introspector
    constraint,    \* the constraint of the running pass
    provider,      \* the stability provider of the running pass
    pos,           \* the engine's position in the root content
    lines,         \* the lines the running pass has laid out so far
    document,      \* the document of the last completed pass
    tracer,        \* what has been reported through the tracer
    result,        \* what typeset returned
    state,         \* "Attempting", "Converged", "Exhausted", "Failed"
    passIntro,     \* history: the introspector each pass was tracked against
    passDocs,      \* history: the document each pass produced
    issued,        \* history: the queries issued during the running pass
    measured       \* history: the measure calls made, in order

vars == << content, pc, iter, introspector, constraint, provider, pos, lines,
           document, tracer, result, state, passIntro, passDocs, issued,
           measured >>

\* OutlineNode::show taken one heading of its loop at a time.
VARIABLES
    shStyles,      \* the style properties show reads: depth, indent, ...
    shLocated,     \* what vt.locate(heading selector) returned
    shIndex,       \* the index of the next located heading of the loop
    shAncestors,   \* the `ancestors` stack
    shSeq,         \* the `seq` vector
    shPc,          \* "idle", "loop", "done"
    shEntries      \* history: per pushed entry, heading index and ancestors used

showVars == << shStyles, shLocated, shIndex, shAncestors, shSeq, shPc,
               shEntries >>

\* No call of OutlineNode::show is being followed.
ShowIdle ==
    /\ shStyles = [kind |-> "none"]
    /\ shLocated = << >>
    /\ shIndex = 0
    /\ shAncestors = << >>
    /\ shSeq = << >>
    /\ shPc = "idle"
    /\ shEntries = << >>

\* render_outline_glyph: the blending loop, one bitmap cell at a time.
VARIABLES
    cw, ch,        \* the canvas width and height
    mw, mh,        \* the bitmap width and height
    left, top,     \* where the bitmap lies on the canvas
    right, bottom, \* left + mw, top + mh
    gColor,        \* the premultiplied text colour
    gx, gy,        \* the loop variables x and y
    pixels,        \* the canvas pixels written so far, by index
    gBuild,        \* "debug" (overflow checks) or "release" (wrapping)
    gPc,           \* "idle", "start", "pixel", "end", "done", "panic"
    gAccess        \* history: the indices of the last iteration, its coverage

glyphVars == << cw, ch, mw, mh, left, top, right, bottom, gColor, gx, gy,
                pixels, gBuild, gPc, gAccess >>

NoAccess == [kind |-> "none"]

\* No glyph is being rendered.
GlyphIdle ==
    /\ cw = 0 /\ ch = 0 /\ mw = 0 /\ mh = 0
    /\ left = 0 /\ top = 0 /\ right = 0 /\ bottom = 0
    /\ gColor = << 0, 0, 0, 0 >>
    /\ gx = 0 /\ gy = 0
    /\ pixels = << >>
    /\ gBuild = "release"
    /\ gPc = "idle"
    /\ gAccess = NoAccess

\* One call of alpha_mul or of blend_src_over.
VARIABLES
    bColor, bScale, \* the arguments of alpha_mul
    bSrc, bDst,     \* the arguments of blend_src_over
    bOut,           \* what the call returned
    bPc             \* "idle", "alpha_mul", "blend_src_over", "done"

blendVars == << bColor, bScale, bSrc, bDst, bOut, bPc >>

NoOut == [kind |-> "none"]

\* No colour is being blended.
BlendIdle ==
    /\ bColor = << 0, 0, 0, 0 >>
    /\ bScale = 0
    /\ bSrc = << 0, 0, 0, 0 >>
    /\ bDst = << 0, 0, 0, 0 >>
    /\ bOut = NoOut
    /\ bPc = "idle"

NoDocument == [pages |-> EmptyPages]
NoResult == [tag |-> "none"]
Ok(doc) == [tag |-> "Ok", document |-> doc]
Err(elem) == [tag |-> "Err", at |-> elem]

Init ==
    /\ content \in Contents
    /\ pc = "loop"
    /\ iter = 0
    /\ introspector = IntrospectorNew(EmptyPages)
    /\ constraint = ConstraintNew
    /\ provider = StabilityProviderNew
    /\ pos = 1
    /\ lines = << >>
    /\ document = NoDocument
    /\ tracer = << >>
    /\ result = NoResult
    /\ state = "Attempting"
    /\ passIntro = << >>
    /\ passDocs = << >>
    /\ issued = << >>
    /\ measured = << >>
    /\ ShowIdle
    /\ GlyphIdle
    /\ BlendIdle

Vm == [provider |-> provider, introspector |-> introspector,
       constraint |-> constraint]

\* The queries a step appended to the constraint it was given.
Appended(before, after) == SubSeq(after, Len(before) + 1, Len(after))

\* The constraint and the provider created once, before the loop, and
\* carried from pass to pass.
StartPass_Reuse ==
    /\ pc = "loop"
    /\ constraint' = constraint
    /\ provider' = provider
    /\ pos' = 1
    /\ lines' = << >>
    /\ pc' = "layout"
    /\ issued' = << >>
    /\ passIntro' = Append(passIntro, introspector)
    /\ UNCHANGED << content, iter, introspector, document, tracer, result,
                    state, passDocs, measured >>

\* Top of the loop: a new Constraint, a new StabilityProvider, a new Vm.
StartPass ==
    /\ pc = "loop"
    /\ constraint' = ConstraintNew
    /\ provider' = StabilityProviderNew
    /\ pos' = 1
    /\ lines' = << >>
    /\ pc' = "layout"
    /\ issued' = << >>
    /\ passIntro' = Append(passIntro, introspector)
    /\ UNCHANGED << content, iter, introspector, document, tracer, result,
                    state, passDocs, measured >>

\* The engine lays out the next element of the root content.
LayoutStep ==
    /\ pc = "layout"
    /\ pos <= Len(content)
    /\ content[pos].kind # "measure"
    /\ \E r \in { LayoutElement(Vm, content[pos]) } :
           /\ ~r.err
           /\ lines' = lines \o r.lines
           /\ provider' = r.vm.provider
           /\ constraint' = r.vm.constraint
           /\ issued' = issued \o Appended(constraint, r.vm.constraint)
    /\ pos' = pos + 1
    /\ UNCHANGED << content, pc, iter, introspector, document, tracer, result,
                    state, passIntro, passDocs, measured >>

\* The engine reaches a call of measure.
LayoutMeasure ==
    /\ pc = "layout"
    /\ pos <= Len(content)
    /\ content[pos].kind = "measure"
    /\ \E r \in { LayoutElement(Vm, content[pos]) } :
           /\ ~r.err
           /\ lines' = lines \o r.lines
           /\ provider' = r.vm.provider
           /\ constraint' = r.vm.constraint
           /\ issued' = issued \o Appended(constraint, r.vm.constraint)
           /\ measured' = Append(measured,
                  [body |-> content[pos].body, styles |-> content[pos].styles,
                   pass |-> iter + 1, introspector |-> introspector,
                   pod |-> r.call.pod, frame |-> r.call.frame,
                   value |-> r.call.value])
    /\ pos' = pos + 1
    /\ UNCHANGED << content, pc, iter, introspector, document, tracer, result,
                    state, passIntro, passDocs >>

\* The error of an element swallowed: the pass goes on without it.
LayoutFail_Skip ==
    /\ pc = "layout"
    /\ pos <= Len(content)
    /\ LayoutElement(Vm, content[pos]).err
    /\ pos' = pos + 1
    /\ UNCHANGED << content, pc, iter, introspector, constraint, provider,
                    lines, document, tracer, result, state, passIntro,
                    passDocs, issued, measured >>

\* `(library.items.layout)(..)?` with an error: typeset returns it.
LayoutFail ==
    /\ pc = "layout"
    /\ pos <= Len(content)
    /\ LayoutElement(Vm, content[pos]).err
    /\ result' = Err(content[pos])
    /\ state' = "Failed"
    /\ pc' = "done"
    /\ UNCHANGED << content, iter, introspector, constraint, provider, pos,
                    lines, document, tracer, passIntro, passDocs, issued,
                    measured >>

\* `document = (library.items.layout)(..)?` with a document.
LayoutFinish ==
    /\ pc = "layout"
    /\ pos > Len(content)
    /\ document' = DocumentOf(lines)
    /\ passDocs' = Append(passDocs, DocumentOf(lines))
    /\ pc' = "built"
    /\ UNCHANGED << content, iter, introspector, constraint, provider, pos,
                    lines, tracer, result, state, passIntro, issued, measured >>

\* The exit test with `iter > 5` in place of `iter >= 5`.
EndPass_SixPasses ==
    /\ pc = "built"
    /\ iter' = iter + 1
    /\ introspector' = IntrospectorNew(document.pages)
    /\ pc' = IF iter' > MaxIter \/ Valid(introspector', constraint)
             THEN "break" ELSE "loop"
    /\ state' = IF Valid(introspector', constraint) THEN "Converged"
                ELSE IF iter' > MaxIter THEN "Exhausted"
                ELSE "Attempting"
    /\ UNCHANGED << content, constraint, provider, pos, lines, document,
                    tracer, result, passIntro, passDocs, issued, measured >>

\* The exit test made before the introspector is rebuilt: the constraint is
\* validated against the introspector the pass itself consumed.
EndPass_ValidBeforeRebuild ==
    /\ pc = "built"
    /\ iter' = iter + 1
    /\ introspector' = IntrospectorNew(document.pages)
    /\ pc' = IF iter' >= MaxIter \/ Valid(introspector, constraint)
             THEN "break" ELSE "loop"
    /\ state' = IF Valid(introspector, constraint) THEN "Converged"
                ELSE IF iter' >= MaxIter THEN "Exhausted"
                ELSE "Attempting"
    /\ UNCHANGED << content, constraint, provider, pos, lines, document,
                    tracer, result, passIntro, passDocs, issued, measured >>

\* Exhaustion raised as a hard error instead of returning the last document.
EndPass_HardError ==
    /\ pc = "built"
    /\ iter' = iter + 1
    /\ introspector' = IntrospectorNew(document.pages)
    /\ pc' = IF Valid(introspector', constraint) THEN "break"
             ELSE IF iter' >= MaxIter THEN "done" ELSE "loop"
    /\ state' = IF Valid(introspector', constraint) THEN "Converged"
                ELSE IF iter' >= MaxIter THEN "Exhausted"
                ELSE "Attempting"
    /\ result' = IF ~Valid(introspector', constraint) /\ iter' >= MaxIter
                 THEN Err("ExhaustedConvergence") ELSE result
    /\ UNCHANGED << content, constraint, provider, pos, lines, document,
                    tracer, passIntro, passDocs, issued, measured >>

\* The new introspector is validated but never stored: the next pass is
\* tracked against the old one.
EndPass_NoReplace ==
    /\ pc = "built"
    /\ iter' = iter + 1
    /\ introspector' = introspector
    /\ pc' = IF iter' >= MaxIter
                \/ Valid(IntrospectorNew(document.pages), constraint)
             THEN "break" ELSE "loop"
    /\ state' = IF Valid(IntrospectorNew(document.pages), constraint)
                THEN "Converged"
                ELSE IF iter' >= MaxIter THEN "Exhausted"
                ELSE "Attempting"
    /\ UNCHANGED << content, constraint, provider, pos, lines, document,
                    tracer, result, passIntro, passDocs, issued, measured >>

\* iter += 1; the new introspector; the exit test of the loop.
EndPass ==
    /\ pc = "built"
    /\ iter' = iter + 1
    /\ introspector' = IntrospectorNew(document.pages)
    /\ pc' = IF iter' >= MaxIter \/ Valid(introspector', constraint)
             THEN "break" ELSE "loop"
    /\ state' = IF Valid(introspector', constraint) THEN "Converged"
                ELSE IF iter' >= MaxIter THEN "Exhausted"
                ELSE "Attempting"
    /\ UNCHANGED << content, constraint, provider, pos, lines, document,
                    tracer, result, passIntro, passDocs, issued, measured >>

\* An exhausted run reported through the tracer before returning.
Return_Report ==
    /\ pc = "break"
    /\ result' = Ok(document)
    /\ tracer' = IF state = "Exhausted"
                 THEN Append(tracer, "ExhaustedConvergence") ELSE tracer
    /\ pc' = "done"
    /\ UNCHANGED << content, iter, introspector, constraint, provider, pos,
                    lines, document, state, passIntro, passDocs, issued,
                    measured >>

\* Ok(document)
Return ==
    /\ pc = "break"
    /\ result' = Ok(document)
    /\ pc' = "done"
    /\ UNCHANGED << content, iter, introspector, constraint, provider, pos,
                    lines, document, tracer, state, passIntro, passDocs,
                    issued, measured >>

Next ==
    \/ StartPass /\ UNCHANGED << showVars, glyphVars, blendVars >>
    \/ LayoutStep /\ UNCHANGED << showVars, glyphVars, blendVars >>
    \/ LayoutMeasure /\ UNCHANGED << showVars, glyphVars, blendVars >>
    \/ LayoutFail /\ UNCHANGED << showVars, glyphVars, blendVars >>
    \/ LayoutFinish /\ UNCHANGED << showVars, glyphVars, blendVars >>
    \/ EndPass /\ UNCHANGED << showVars, glyphVars, blendVars >>
    \/ Return /\ UNCHANGED << showVars, glyphVars, blendVars >>

Spec == Init /\ [][Next]_vars

(***************************************************************************)
(* The driver: termination, convergence, exhaustion.                       *)
(***************************************************************************)
\* The number of passes started so far.
PassesStarted == Len(passIntro)

Done == pc = "done"

\* Steps taken within the running pass.
Within ==
    IF pc = "loop" THEN 0
    ELSE IF pc = "layout" THEN pos
    ELSE IF pc = "built" THEN Len(content) + 2
    ELSE Len(content) + 3

\* A bound on the steps typeset still has to take.
Rank ==
    IF Done THEN 0
    ELSE (MaxIter + 1 - iter) * (Len(content) + 5) - Within

\* C1: typeset terminates after at most 5 layout passes.  Every step of
\* typeset leaves at most 5 passes started and at most 5 completed, and
\* strictly lowers a natural number that bounds the steps still to take,
\* so no run starts a sixth pass or goes on forever, whether or not the
\* introspections stabilize.
C1_AtMostFivePasses ==
    [][ /\ PassesStarted' <= MaxIter
        /\ iter' <= MaxIter
        /\ Len(passDocs') <= MaxIter
        /\ pc' \in { "loop", "layout", "built", "break", "done" }
        /\ pc' = "layout" => pos' <= Len(content) + 1
        /\ Rank' >= 0
        /\ Rank' < Rank ]_vars

\* Five passes ran, the introspections never stabilized, typeset returned.
C1_Witness ==
    Done /\ iter = MaxIter /\ PassesStarted = MaxIter /\ state = "Exhausted"

\* The introspector built from the document of the last completed pass.
Rebuilt == IntrospectorNew(passDocs[iter].pages)

\* C2: after a pass the working introspector is the one built from that
\* pass's document; the loop goes on only if it is incompatible with the
\* pass's constraint; what typeset returns is the document of the last
\* pass, no further pass having started, and when fewer than 5 passes ran
\* the introspector built from the returned document is compatible with
\* the constraint of the pass that produced it.
C2_ReturnsAtFixedPoint ==
    /\ (pc = "loop" /\ iter >= 1) =>
            /\ introspector = Rebuilt
            /\ ~Valid(Rebuilt, constraint)
    /\ pc = "break" =>
            /\ introspector = Rebuilt
            /\ document = passDocs[iter]
            /\ PassesStarted = iter
            /\ iter < MaxIter => Valid(Rebuilt, constraint)
    /\ (Done /\ result.tag = "Ok") =>
            /\ result.document = passDocs[iter]
            /\ PassesStarted = iter
            /\ Len(passDocs) = iter
            /\ iter < MaxIter =>
                   Valid(IntrospectorNew(result.document.pages), constraint)

\* typeset returned at a fixed point reached on the third or fourth pass.
C2_Witness ==
    /\ Done /\ result.tag = "Ok"
    /\ iter > 2 /\ iter < MaxIter
    /\ constraint # << >>
    /\ Valid(IntrospectorNew(result.document.pages), constraint)

\* C3: when five passes complete without a fixed point typeset returns
\* Ok with the document of the fifth pass.
C3_ExhaustedReturnsLast ==
    (Done /\ state = "Exhausted") =>
        /\ iter = MaxIter
        /\ Len(passDocs) = MaxIter
        /\ result = Ok(passDocs[MaxIter])

\* An exhausted run whose fifth document differs from the fourth.
C3_Witness ==
    /\ Done /\ state = "Exhausted" /\ result.tag = "Ok"
    /\ passDocs[MaxIter] # passDocs[MaxIter - 1]
    /\ ~Valid(IntrospectorNew(result.document.pages), constraint)

\* C4 as stated: an exhausted run reports an ExhaustedConvergence
\* diagnostic to the caller alongside the document.
C4_DiagnosticReported ==
    (Done /\ state = "Exhausted") =>
        \/ \E i \in 1..Len(tracer) : tracer[i] = "ExhaustedConvergence"
        \/ result.tag # "Ok"
        \/ DOMAIN result # { "tag", "document" }

\* C4 as amended: an exhausted run returns Ok with the document of the
\* last pass and nothing else.  typeset reports nothing through the
\* tracer, and what it returns has the form of a converged run's result.
C4_ExhaustedIsSilent ==
    /\ tracer = << >>
    /\ (Done /\ state \in { "Exhausted", "Converged" }) =>
            /\ result = Ok(document)
            /\ DOMAIN result = { "tag", "document" }
    /\ (Done /\ state = "Exhausted") => document = passDocs[MaxIter]

\* typeset has returned from an exhausted run, and nothing was reported.
C4_Witness ==
    /\ Done /\ state = "Exhausted"
    /\ result = Ok(document)
    /\ tracer = << >>

(***************************************************************************)
(* The bookkeeping of a pass.                                              *)
(***************************************************************************)
\* C5: pass k is tracked against the introspector of an empty document
\* when k = 1 and against the one built from the document of pass k-1
\* otherwise; while a pass runs every earlier pass has completed and the
\* working introspector is the one the pass started with.
C5_TrackedAgainstPrevious ==
    /\ PassesStarted <= Len(passDocs) + 1
    /\ \A k \in 1..PassesStarted :
           passIntro[k] = IF k = 1 THEN IntrospectorNew(EmptyPages)
                          ELSE IntrospectorNew(passDocs[k - 1].pages)
    /\ pc = "layout" =>
           /\ PassesStarted = iter + 1
           /\ Len(passDocs) = iter
           /\ introspector = passIntro[PassesStarted]

\* A third pass is running; the three passes saw three different introspectors.
C5_Witness ==
    /\ pc = "layout" /\ PassesStarted >= 3
    /\ passIntro[1] # passIntro[2]
    /\ passIntro[2] # passIntro[3]
    /\ passIntro[3].nodes # << >>

\* The located lines of hash h laid out so far in the running pass.
HeadingsLaid(h) ==
    Cardinality({ i \in 1..Len(lines) :
                     lines[i].kind = "heading" /\ lines[i].id[1] = h })

\* C6: a pass starts with an empty constraint and an empty provider; the
\* constraint holds exactly the queries issued during the pass, and the
\* provider counts exactly the located nodes the pass has laid out.
C6_FreshPerPass ==
    /\ (pc = "layout" /\ pos = 1) =>
           /\ constraint = ConstraintNew
           /\ provider = StabilityProviderNew
    /\ constraint = issued
    /\ \A h \in DOMAIN provider : provider[h] = HeadingsLaid(h)
    /\ \A i \in 1..Len(lines) :
           lines[i].kind = "heading" =>
               /\ lines[i].id[1] \in DOMAIN provider
               /\ lines[i].id[2] < provider[lines[i].id[1]]

\* A second or later pass has been laid out: it issued queries that were
\* answered with headings, and it located nodes.
C6_Witness ==
    /\ pc = "built" /\ iter >= 1
    /\ constraint # << >>
    /\ constraint[1].ret # << >>
    /\ provider # StabilityProviderNew

\* The engine is about to return an error for the next element.
ErrAhead ==
    /\ pc = "layout"
    /\ pos <= Len(content)
    /\ LayoutElement(Vm, content[pos]).err

\* C7: when the layout engine returns an error typeset returns it at
\* once: no pass is completed or started, no introspector is built and no
\* document is returned; and nothing happens after typeset has returned.
C7_ErrorReturnedAtOnce ==
    [][ /\ ~Done
        /\ ErrAhead =>
              /\ pc' = "done"
              /\ result' = Err(content[pos])
              /\ iter' = iter
              /\ passIntro' = passIntro
              /\ passDocs' = passDocs
              /\ introspector' = introspector
              /\ document' = document ]_vars

\* typeset returned an error raised in a second or later pass.
C7_Witness ==
    /\ Done /\ result.tag = "Err"
    /\ iter >= 1 /\ Len(passDocs) = iter /\ PassesStarted = iter + 1

(***************************************************************************)
(* Forward references: the outline.                                        *)
(***************************************************************************)
\* The link at the end of an entry line: the page number shown.
EndLink(entry) == entry.items[Len(entry.items)]

\* The first link of an entry line: numbering and title.
StartLink(entry) ==
    IF entry.items[1].kind = "link" THEN entry.items[1] ELSE entry.items[3]

\* The entry shows the page of an outlined heading of the document with
\* the entry's title, and leads to where that heading lies.
EntryShowsPage(doc, entry) ==
    \E p \in 1..Len(doc.pages) : \E i \in 1..Len(doc.pages[p]) :
        /\ doc.pages[p][i].kind = "heading"
        /\ doc.pages[p][i].outlined
        /\ StartLink(entry).text[Len(StartLink(entry).text)] = doc.pages[p][i].title
        /\ EndLink(entry).text = Digits(p)
        /\ EndLink(entry).dest.page = p
        /\ EndLink(entry).dest.pos.y + LinkShift = i - 1

EntriesOf(doc) ==
    { << p, i >> \in (1..Len(doc.pages)) \X (1..PageCap) :
         i <= Len(doc.pages[p]) /\ doc.pages[p][i].kind = "entry" }

AllEntriesShowPages(doc) ==
    \A e \in EntriesOf(doc) : EntryShowsPage(doc, doc.pages[e[1]][e[2]])

\* C8: in the document typeset returns from a converged run every outline
\* entry shows the page on which its heading lies in that document; the
\* document of the first pass, laid out against the empty introspector,
\* has no outline entry at all.
C8_OutlineShowsFinalPages ==
    /\ (Done /\ state = "Converged" /\ result.tag = "Ok") =>
            AllEntriesShowPages(result.document)
    /\ Len(passDocs) >= 1 => EntriesOf(passDocs[1]) = {}

\* A converged run of an outline followed by its headings: the second pass
\* showed stale pages, the returned document shows a heading on a later
\* page than the first.
C8_Witness ==
    /\ Done /\ state = "Converged" /\ result.tag = "Ok"
    /\ content[1].kind = "outline"
    /\ Len(passDocs) >= 3
    /\ EntriesOf(passDocs[1]) = {}
    /\ ~AllEntriesShowPages(passDocs[2])
    /\ \E e \in EntriesOf(result.document) :
           /\ EndLink(result.document.pages[e[1]][e[2]]).text # << "1" >>
           /\ EntryShowsPage(result.document, result.document.pages[e[1]][e[2]])

(***************************************************************************)
(* measure.                                                                *)
(***************************************************************************)
\* The step being taken is a call of measure.
MeasureStep ==
    /\ pc = "layout"
    /\ pos <= Len(content)
    /\ content[pos].kind = "measure"
    /\ pos' = pos + 1

C9_EqualSizesInEveryPass ==
    \A i, j \in 1..Len(measured) :
        (/\ measured[i].body = measured[j].body
         /\ measured[i].styles = measured[j].styles)
        => measured[i].value = measured[j].value

C10_MeasureRegionAndResult ==
    \A i \in 1..Len(measured) :
        /\ measured[i].pod.size = [x |-> AbsInf, y |-> AbsInf]
        /\ measured[i].pod.expand = [x |-> FALSE, y |-> FALSE]
        /\ measured[i].pod.backlog = << >>
        /\ measured[i].pod.last = "none"
        /\ DOMAIN measured[i].value = { "width", "height" }
        /\ measured[i].value.width = measured[i].frame.size.x
        /\ measured[i].value.height = measured[i].frame.size.y
        /\ measured[i].value.width < AbsInf
        /\ measured[i].value.height < AbsInf
        /\ measured[i].body.kind = "box" =>
              /\ measured[i].value.width = measured[i].body.w * measured[i].styles
              /\ measured[i].value.height = measured[i].body.h * measured[i].styles

\* A box of 3 by 1 was measured under styles of text size 2.
C10_Witness ==
    \E i \in 1..Len(measured) :
        /\ measured[i].body = Box(3, 1)
        /\ measured[i].styles = 2
        /\ measured[i].value = [width |-> 6, height |-> 2]

(***************************************************************************)
(* OutlineNode::show over arbitrary located headings.                      *)
(***************************************************************************)
MaxHeadings == 3
MaxLevel == 3

\* typeset is not running.
TypesetIdle ==
    /\ content = << >>
    /\ pc = "idle"
    /\ iter = 0
    /\ introspector = IntrospectorNew(EmptyPages)
    /\ constraint = ConstraintNew
    /\ provider = StabilityProviderNew
    /\ pos = 1
    /\ lines = << >>
    /\ document = NoDocument
    /\ tracer = << >>
    /\ result = NoResult
    /\ state = "Attempting"
    /\ passIntro = << >>
    /\ passDocs = << >>
    /\ issued = << >>
    /\ measured = << >>

\* The headings a document may hold: any level, outlined or not, with a
\* numbering or without.  `numbers` is read only of outlined headings.
HeadingInputs ==
    { Heading(l, "T", TRUE, n) : l \in 1..MaxLevel, n \in { "", "#" } }
    \cup { Heading(l, "T", FALSE, "") : l \in 1..MaxLevel }

\* What locate returns for the headings hs: heading i lies on page i, and a
\* numbered heading carries the numbering of its place.
LocatedOf(hs) ==
    [i \in 1..Len(hs) |->
        Located([id |-> << "heading", i >>,
                 numbers |-> IF hs[i].numbers = "" THEN "" ELSE DigitChar[i + 1]]
                @@ hs[i], i, 1)]

ShowStyles ==
    { Outline("auto", "en", d, ind, "none") :
        d \in { NoDepth } \cup 1..MaxLevel, ind \in BOOLEAN }

ShowInit ==
    /\ TypesetIdle
    /\ GlyphIdle
    /\ BlendIdle
    /\ shStyles \in ShowStyles
    /\ shLocated \in { LocatedOf(hs) : hs \in SeqsUpTo(HeadingInputs, MaxHeadings) }
    /\ shIndex = 0
    /\ shAncestors = << >>
    /\ shSeq = << >>
    /\ shPc = "start"
    /\ shEntries = << >>

\* if let Some(depth) = depth { if depth < heading.level { continue } }
TooDeep_LevelAtDepth(depth, level) == depth # NoDepth /\ depth <= level

TooDeep(depth, level) == depth # NoDepth /\ depth < level

\* The title heading is pushed, indent and depth are read, the loop starts.
ShowBegin ==
    /\ shPc = "start"
    /\ shSeq' = OutlineTitle(shStyles)
    /\ shAncestors' = << >>
    /\ shIndex' = 1
    /\ shPc' = "loop"
    /\ UNCHANGED << shStyles, shLocated, shEntries >>

\* if node.field("outlined") != true { continue }
ShowSkipNotOutlined ==
    /\ shPc = "loop"
    /\ shIndex <= Len(shLocated)
    /\ shLocated[shIndex].node.outlined # TRUE
    /\ shIndex' = shIndex + 1
    /\ UNCHANGED << shStyles, shLocated, shAncestors, shSeq, shPc, shEntries >>

ShowSkipTooDeep ==
    /\ shPc = "loop"
    /\ shIndex <= Len(shLocated)
    /\ shLocated[shIndex].node.outlined = TRUE
    /\ TooDeep(shStyles.depth, shLocated[shIndex].node.level)
    /\ shIndex' = shIndex + 1
    /\ UNCHANGED << shStyles, shLocated, shAncestors, shSeq, shPc, shEntries >>

\* The rest of the loop body: pop, push the entry, push the heading.
ShowPushEntry ==
    /\ shPc = "loop"
    /\ shIndex <= Len(shLocated)
    /\ shLocated[shIndex].node.outlined = TRUE
    /\ ~TooDeep(shStyles.depth, shLocated[shIndex].node.level)
    /\ \E anc \in { PopAncestors(shAncestors, shLocated[shIndex].node.level) } :
          /\ shSeq' = shSeq \o OutlineEntry(shStyles, shLocated[shIndex].node, anc)
          /\ shAncestors' = Append(anc, shLocated[shIndex].node)
          /\ shEntries' = Append(shEntries,
                                 [index |-> shIndex, ancestors |-> anc,
                                  from |-> Len(shSeq) + 1])
    /\ shIndex' = shIndex + 1
    /\ UNCHANGED << shStyles, shLocated, shPc >>

\* Ok(BlockNode(Content::sequence(seq)).pack())
ShowReturn ==
    /\ shPc = "loop"
    /\ shIndex > Len(shLocated)
    /\ shPc' = "done"
    /\ UNCHANGED << shStyles, shLocated, shIndex, shAncestors, shSeq, shEntries >>

ShowNext ==
    \/ ShowBegin /\ UNCHANGED << vars, glyphVars, blendVars >>
    \/ ShowSkipNotOutlined /\ UNCHANGED << vars, glyphVars, blendVars >>
    \/ ShowSkipTooDeep /\ UNCHANGED << vars, glyphVars, blendVars >>
    \/ ShowPushEntry /\ UNCHANGED << vars, glyphVars, blendVars >>
    \/ ShowReturn /\ UNCHANGED << vars, glyphVars, blendVars >>

ShowSpec == ShowInit /\ [][ShowNext]_showVars

\* Heading i is outlined and not deeper than the maximum depth.
Included(i) ==
    /\ shLocated[i].node.outlined = TRUE
    /\ (shStyles.depth = NoDepth \/ shLocated[i].node.level <= shStyles.depth)

\* The included headings among the first n, in document order.
IncludedAmong(n) == SelectSeq([i \in 1..n |-> i], Included)

LinksOf(items) == SelectSeq(items, LAMBDA e : e.kind = "link")

\* C11: the entries that show emits are exactly the outlined headings whose
\* level is at most the maximum depth (all outlined headings without one),
\* one entry per heading, in the order in which locate returned them.
C11_EntriesAreTheIncludedHeadings ==
    shPc \in { "loop", "done" } =>
        LET inc == IncludedAmong(shIndex - 1)
            links == LinksOf(shSeq)
        IN  /\ [k \in 1..Len(shEntries) |-> shEntries[k].index] = inc
            /\ Len(links) = 2 * Len(inc)
            /\ \A k \in 1..Len(inc) :
                  /\ links[2 * k - 1].dest.page = shLocated[inc[k]].node.loc.page
                  /\ links[2 * k].dest.page = shLocated[inc[k]].node.loc.page
                  /\ links[2 * k].text = Digits(shLocated[inc[k]].node.loc.page)
            /\ Len(SelectSeq(shSeq, LAMBDA e : e.kind = "linebreak")) = Len(inc)
            /\ (shPc = "done" =>
                  /\ shIndex = Len(shLocated) + 1
                  /\ shSeq = OutlineShow(shStyles, shLocated))

\* Maximum depth 1 over outlined headings of levels 1, 2, 1: two entries.
C11_Witness ==
    /\ shPc = "done"
    /\ shStyles.depth = 1
    /\ Len(shLocated) = 3
    /\ \A i \in 1..3 : shLocated[i].node.outlined = TRUE
    /\ [i \in 1..3 |-> shLocated[i].node.level] = << 1, 2, 1 >>
    /\ [k \in 1..Len(shEntries) |-> shEntries[k].index] = << 1, 3 >>

LevelAt(i) == shLocated[i].node.level

\* The included headings before heading i that enclose it: of smaller level,
\* with no included heading of their level or less between them and i.
Encloses(j, i) ==
    /\ j < i
    /\ Included(j)
    /\ LevelAt(j) < LevelAt(i)
    /\ \A k \in (j + 1)..(i - 1) : Included(k) => LevelAt(k) > LevelAt(j)

EnclosingOf(i) ==
    SelectSeq([j \in 1..Len(shLocated) |-> j], LAMBDA j : Encloses(j, i))

NodesAt(indices) == [k \in 1..Len(indices) |-> shLocated[indices[k]].node]

HiddenOf(items) == SelectSeq(items, LAMBDA e : e.kind = "hide")

\* The text of a hidden prefix names only numbered headings that enclose
\* heading i, in document order.
PrefixFrom(text, i) ==
    LET enclosing == NodesAt(EnclosingOf(i))
        numbered == SelectSeq(enclosing, LAMBDA n : n.numbers # "")
    IN  /\ Len(text) = 2 * Len(numbered)
        /\ \A k \in 1..Len(numbered) :
              text[2 * k - 1] = numbered[k].numbers /\ text[2 * k] = " "

\* C12: after every included heading is processed the ancestors stack holds
\* headings of strictly increasing level from bottom to top with that heading
\* on top; skipped headings never enter it; and with indent enabled the
\* hidden prefix before a heading is built only from earlier included
\* headings of strictly smaller level, in document order.
C12_AncestorsStrictlyIncreasing ==
    shPc \in { "loop", "done" } =>
        LET inc == IncludedAmong(shIndex - 1)
        IN  /\ \A k \in 1..(Len(shAncestors) - 1) :
                  shAncestors[k].level < shAncestors[k + 1].level
            /\ \A k \in 1..Len(shAncestors) :
                  \E i \in 1..(shIndex - 1) :
                      Included(i) /\ shAncestors[k] = shLocated[i].node
            /\ (inc = << >> => shAncestors = << >>)
            /\ (inc # << >> =>
                  /\ shAncestors # << >>
                  /\ shAncestors[Len(shAncestors)] = shLocated[inc[Len(inc)]].node
                  /\ SubSeq(shAncestors, 1, Len(shAncestors) - 1)
                        = NodesAt(EnclosingOf(inc[Len(inc)])))
            /\ \A k \in 1..Len(shEntries) :
                  LET e == shEntries[k] IN
                  /\ e.ancestors = NodesAt(EnclosingOf(e.index))
                  /\ \A a \in 1..Len(e.ancestors) :
                        /\ e.ancestors[a].level < LevelAt(e.index)
                        /\ e.ancestors[a].loc.page < e.index
                        /\ (a > 1 => e.ancestors[a - 1].loc.page < e.ancestors[a].loc.page)
                  /\ IF shSeq[e.from].kind = "hide"
                     THEN shStyles.indent /\ shSeq[e.from].text # << >>
                          /\ PrefixFrom(shSeq[e.from].text, e.index)
                     ELSE shStyles.indent => PrefixFrom(<< >>, e.index)
            /\ Len(HiddenOf(shSeq))
                 = Cardinality({ k \in 1..Len(shEntries) :
                                    shSeq[shEntries[k].from].kind = "hide" })

\* Levels 1, 2, 2 with indent: the third heading popped the second, and its
\* hidden prefix names the first alone.
C12_Witness ==
    /\ shPc = "done"
    /\ shStyles.indent
    /\ Len(shLocated) = 3
    /\ [i \in 1..3 |-> LevelAt(i)] = << 1, 2, 2 >>
    /\ \A i \in 1..3 : shLocated[i].node.outlined = TRUE /\ shLocated[i].node.numbers # ""
    /\ Len(shEntries) = 3
    /\ [k \in 1..Len(shAncestors) |-> shAncestors[k].loc.page] = << 1, 3 >>
    /\ shSeq[shEntries[3].from].kind = "hide"
    /\ shSeq[shEntries[3].from].text = << "1", " " >>

(***************************************************************************)
(* Packed 32-bit colours.  A u32 is its four bytes, least significant      *)
(* first; byte 4 is the alpha channel (the 8 high bits).                   *)
(***************************************************************************)
ByteBase == 256
ByteMax == 255

RECURSIVE BitAnd(_, _)
BitAnd(a, b) ==
    IF a = 0 \/ b = 0 THEN 0
    ELSE 2 * BitAnd(a \div 2, b \div 2) + (IF a % 2 = 1 /\ b % 2 = 1 THEN 1 ELSE 0)

RECURSIVE BitOr(_, _)
BitOr(a, b) ==
    IF a = 0 THEN b
    ELSE IF b = 0 THEN a
    ELSE 2 * BitOr(a \div 2, b \div 2) + (IF a % 2 = 1 \/ b % 2 = 1 THEN 1 ELSE 0)

And32(a, b) == [i \in 1..4 |-> BitAnd(a[i], b[i])]
Or32(a, b) == [i \in 1..4 |-> BitOr(a[i], b[i])]
Not32(a) == [i \in 1..4 |-> ByteMax - a[i]]

\* color >> 8
Shr8(a) == << a[2], a[3], a[4], 0 >>

\* src >> 24, as a number
Shr24(a) == a[4]

\* a * k on 32 bits: the wrapped product and whether it overflowed.
MulU32(a, k) ==
    LET t1 == a[1] * k
        t2 == a[2] * k + t1 \div ByteBase
        t3 == a[3] * k + t2 \div ByteBase
        t4 == a[4] * k + t3 \div ByteBase
    IN  [value |-> << t1 % ByteBase, t2 % ByteBase, t3 % ByteBase, t4 % ByteBase >>,
         overflow |-> t4 \div ByteBase # 0]

\* a + b on 32 bits: the wrapped sum, the carry out of each byte, and whether
\* the sum overflowed.
AddU32(a, b) ==
    LET s1 == a[1] + b[1]
        s2 == a[2] + b[2] + s1 \div ByteBase
        s3 == a[3] + b[3] + s2 \div ByteBase
        s4 == a[4] + b[4] + s3 \div ByteBase
    IN  [value |-> << s1 % ByteBase, s2 % ByteBase, s3 % ByteBase, s4 % ByteBase >>,
         carries |-> << s1 \div ByteBase, s2 \div ByteBase, s3 \div ByteBase >>,
         overflow |-> s4 \div ByteBase # 0]

\* let mask = 0xff00ff
Mask == << ByteMax, 0, ByteMax, 0 >>

\* fn alpha_mul(color: u32, scale: u32) -> u32
alpha_mul(color, scale) ==
    LET rb == MulU32(And32(color, Mask), scale)
        ag == MulU32(And32(Shr8(color), Mask), scale)
    IN  [value |-> Or32(And32(Shr8(rb.value), Mask), And32(ag.value, Not32(Mask))),
         overflow |-> rb.overflow \/ ag.overflow]

\* blend_src_over scaling the destination by 256 whatever the source alpha.
blend_src_over_Opaque(src, dst) ==
    LET scaled == alpha_mul(dst, ByteBase)
        sum == AddU32(src, scaled.value)
    IN  [value |-> sum.value, carries |-> sum.carries,
         overflow |-> scaled.overflow \/ sum.overflow]

\* fn blend_src_over(src: u32, dst: u32) -> u32
blend_src_over(src, dst) ==
    LET scaled == alpha_mul(dst, ByteBase - Shr24(src))
        sum == AddU32(src, scaled.value)
    IN  [value |-> sum.value, carries |-> sum.carries,
         overflow |-> scaled.overflow \/ sum.overflow]

(***************************************************************************)
(* render_outline_glyph: i32 arithmetic and the blending loop.             *)
(***************************************************************************)
I32Max == 2147483647
I32Min == -I32Max - 1

\* a + b on i32: the wrapped sum and whether it overflowed.
AddI32(a, b) ==
    IF b > 0 /\ a > I32Max - b
    THEN [value |-> I32Min + ((a - (I32Max - b)) - 1), overflow |-> TRUE]
    ELSE IF b < 0 /\ a < I32Min - b
    THEN [value |-> I32Max + ((a - (I32Min - b)) + 1), overflow |-> TRUE]
    ELSE [value |-> a + b, overflow |-> FALSE]

\* a - b on i32, for b > i32::MIN.
SubI32(a, b) == AddI32(a, -b)

\* a * b on i32 for a, b >= 0; the wrapped product is right below 2^32.
MulI32(a, b) ==
    IF b > 0 /\ a > I32Max \div b
    THEN [value |-> I32Min + (((a - (I32Max \div b)) * b - (I32Max % b)) - 1),
          overflow |-> TRUE]
    ELSE [value |-> a * b, overflow |-> FALSE]

\* v.clamp(lo, hi)
Clamp(v, lo, hi) == IF v < lo THEN lo ELSE IF v > hi THEN hi ELSE v

MaxCanvas == 2
MaxGlyph == 2

\* The side of the smallest square canvas with more than i32::MAX pixels.
HugeSide == 46341

CanvasSizes ==
    { << w, h >> : w \in 1..MaxCanvas, h \in 1..MaxCanvas }
    \cup { << HugeSide, HugeSide >> }

\* Where a bitmap may lie along an axis of length n: before, on, across and
\* past the canvas, and as far off as an i32 goes.
Positions(n) ==
    (-MaxGlyph..MaxCanvas) \cup { n - k : k \in 0..MaxGlyph } \cup { I32Max }

\* What bitmap.coverage holds: nothing, partial coverage, full coverage.
CoverageSamples == { 0, 128, ByteMax }

\* canvas.fill(sk::Color::WHITE)
White == << ByteMax, ByteMax, ByteMax, ByteMax >>

\* ColorU8::from_rgba(c.r, c.g, c.b, 255).premultiply().get()
TextColors == { << ByteMax, 128, 0, ByteMax >> }

GlyphInit ==
    /\ TypesetIdle
    /\ ShowIdle
    /\ BlendIdle
    /\ \E size \in CanvasSizes : cw = size[1] /\ ch = size[2]
    /\ mw \in 0..MaxGlyph
    /\ mh \in 0..MaxGlyph
    /\ left \in Positions(cw)
    /\ top \in Positions(ch)
    /\ right = 0
    /\ bottom = 0
    /\ gColor \in TextColors
    /\ gx = 0
    /\ gy = 0
    /\ pixels = << >>
    /\ gBuild \in { "debug", "release" }
    /\ gPc = "start"
    /\ gAccess = NoAccess

\* The pixel at index i: what was written there, else the white fill.
PixelAt(i) == IF i \in DOMAIN pixels THEN pixels[i] ELSE White

InBitmap(ai) == ai >= 0 /\ mw > 0 /\ ai \div mw < mh
InCanvas(pi) == pi >= 0 /\ pi \div cw < ch

\* The indices the loop body computes at (gx, gy), and how computing ai, or
\* using it, fails: "overflow" (a checked operation), "bounds" (the slice
\* index check), "none".
Indices ==
    LET dy == SubI32(gy, top)
        row == MulI32(dy.value, mw)
        dx == SubI32(gx, left)
        ai == AddI32(row.value, dx.value)
        prow == MulI32(gy, cw)
        pi == AddI32(prow.value, gx)
    IN  [ai |-> ai.value,
         aiFault |-> IF gBuild = "debug" /\ (dy.overflow \/ row.overflow
                                             \/ dx.overflow \/ ai.overflow)
                     THEN "overflow"
                     ELSE IF ~InBitmap(ai.value) THEN "bounds" ELSE "none",
         pi |-> pi.value,
         piFault |-> IF gBuild = "debug" /\ (prow.overflow \/ pi.overflow)
                     THEN "overflow"
                     ELSE IF ~InCanvas(pi.value) THEN "bounds" ELSE "none"]

\* The half-open ranges of the two loops.
XFrom == Clamp(left, 0, cw)
XTo == Clamp(right, 0, cw)
YFrom == Clamp(top, 0, ch)
YTo == Clamp(bottom, 0, ch)

\* let right = left + mw; let bottom = top + mh; and the loops are entered.
GlyphBegin ==
    /\ gPc = "start"
    /\ \E r \in { AddI32(left, mw) }, b \in { AddI32(top, mh) } :
          IF gBuild = "debug" /\ (r.overflow \/ b.overflow)
          THEN /\ gPc' = "panic"
               /\ UNCHANGED << right, bottom, gx, gy >>
          ELSE /\ right' = r.value
               /\ bottom' = b.value
               /\ gx' = Clamp(left, 0, cw)
               /\ gy' = Clamp(top, 0, ch)
               /\ gPc' = IF Clamp(left, 0, cw) < Clamp(r.value, 0, cw)
                            /\ Clamp(top, 0, ch) < Clamp(b.value, 0, ch)
                         THEN "pixel" ELSE "end"
    /\ UNCHANGED << cw, ch, mw, mh, left, top, gColor, pixels, gBuild, gAccess >>

\* The next y of the inner loop, else the next x of the outer loop.
Advance ==
    IF gy + 1 < YTo
    THEN gy' = gy + 1 /\ gx' = gx /\ gPc' = "pixel"
    ELSE IF gx + 1 < XTo
    THEN gy' = YFrom /\ gx' = gx + 1 /\ gPc' = "pixel"
    ELSE UNCHANGED << gx, gy >> /\ gPc' = "end"

\* if cov == 0 { continue }
GlyphSkip ==
    /\ gPc = "pixel"
    /\ \E at \in { Indices } :
          /\ at.aiFault = "none"
          /\ gAccess' = [kind |-> "skip", ai |-> at.ai, cov |-> 0, x |-> gx, y |-> gy]
    /\ Advance
    /\ UNCHANGED << cw, ch, mw, mh, left, top, right, bottom, gColor, pixels,
                    gBuild >>

\* GlyphSet storing at the index of the transposed pixel.
GlyphSet_Transposed ==
    /\ gPc = "pixel"
    /\ \E at \in { Indices } :
          /\ at.aiFault = "none"
          /\ at.piFault = "none"
          /\ pixels' = ((gx * ch + gy) :> gColor) @@ pixels
          /\ gAccess' = [kind |-> "set", ai |-> at.ai, cov |-> ByteMax,
                         pi |-> gx * ch + gy, x |-> gx, y |-> gy]
    /\ Advance
    /\ UNCHANGED << cw, ch, mw, mh, left, top, right, bottom, gColor, gBuild >>

\* if cov == 255 { pixels[pi] = color; continue }
GlyphSet ==
    /\ gPc = "pixel"
    /\ \E at \in { Indices } :
          /\ at.aiFault = "none"
          /\ at.piFault = "none"
          /\ pixels' = (at.pi :> gColor) @@ pixels
          /\ gAccess' = [kind |-> "set", ai |-> at.ai, cov |-> ByteMax,
                         pi |-> at.pi, x |-> gx, y |-> gy]
    /\ Advance
    /\ UNCHANGED << cw, ch, mw, mh, left, top, right, bottom, gColor, gBuild >>

\* pixels[pi] = blend_src_over(alpha_mul(color, cov), pixels[pi])
GlyphBlend ==
    /\ gPc = "pixel"
    /\ \E at \in { Indices }, cov \in CoverageSamples \ { 0, ByteMax } :
          /\ at.aiFault = "none"
          /\ at.piFault = "none"
          /\ pixels' = (at.pi :> blend_src_over(alpha_mul(gColor, cov).value,
                                                PixelAt(at.pi)).value) @@ pixels
          /\ gAccess' = [kind |-> "blend", ai |-> at.ai, cov |-> cov,
                         pi |-> at.pi, x |-> gx, y |-> gy]
    /\ Advance
    /\ UNCHANGED << cw, ch, mw, mh, left, top, right, bottom, gColor, gBuild >>

\* A checked operation overflows, or an index check fails: the thread panics.
GlyphPanic ==
    /\ gPc = "pixel"
    /\ \E at \in { Indices } :
          \/ /\ at.aiFault # "none"
             /\ gAccess' = [kind |-> at.aiFault, ai |-> at.ai, cov |-> 0,
                            x |-> gx, y |-> gy]
          \/ /\ at.aiFault = "none"
             /\ at.piFault # "none"
             /\ \E cov \in CoverageSamples \ { 0 } :
                   gAccess' = [kind |-> at.piFault, ai |-> at.ai, cov |-> cov,
                               pi |-> at.pi, x |-> gx, y |-> gy]
    /\ gPc' = "panic"
    /\ UNCHANGED << cw, ch, mw, mh, left, top, right, bottom, gColor, gx, gy,
                    pixels, gBuild >>

\* Some(())
GlyphReturn ==
    /\ gPc = "end"
    /\ gPc' = "done"
    /\ UNCHANGED << cw, ch, mw, mh, left, top, right, bottom, gColor, gx, gy,
                    pixels, gBuild, gAccess >>

GlyphNext ==
    \/ GlyphBegin /\ UNCHANGED << vars, showVars, blendVars >>
    \/ GlyphSkip /\ UNCHANGED << vars, showVars, blendVars >>
    \/ GlyphSet /\ UNCHANGED << vars, showVars, blendVars >>
    \/ GlyphBlend /\ UNCHANGED << vars, showVars, blendVars >>
    \/ GlyphPanic /\ UNCHANGED << vars, showVars, blendVars >>
    \/ GlyphReturn /\ UNCHANGED << vars, showVars, blendVars >>

GlyphSpec == GlyphInit /\ [][GlyphNext]_glyphVars

\* The canvas has at most i32::MAX pixels.
FitsI32 == ch <= I32Max \div cw

\* The last iteration used the coverage of the bitmap cell under the canvas
\* pixel (x, y), and the index of that pixel.
RightCell(access) ==
    /\ access.ai = (access.y - top) * mw + (access.x - left)
    /\ access.x - left \in 0..(mw - 1)
    /\ access.y - top \in 0..(mh - 1)

RightPixel(access) ==
    /\ access.x \in 0..(cw - 1)
    /\ access.y \in 0..(ch - 1)
    /\ access.pi \div cw = access.y
    /\ access.pi % cw = access.x

\* C13: in the blending loop every canvas pixel index y*cw+x that is read or
\* written lies inside the canvas and every coverage index
\* (y-top)*mw+(x-left) lies inside the bitmap, for every canvas size and
\* every bitmap position and size; a pixel whose coverage is 0 is left
\* unchanged.
C13_IndicesInside ==
    gAccess # NoAccess =>
        /\ InBitmap(gAccess.ai)
        /\ (gAccess.cov # 0 => InCanvas(gAccess.pi))
        /\ (gAccess.cov = 0 =>
              \A i \in DOMAIN pixels : ~(i \div cw = gAccess.y /\ i % cw = gAccess.x))

\* C13 on canvases of at most i32::MAX pixels: the indices are those of the
\* pixel and of the cell under it, the loop never panics, and only pixels
\* under a covered cell are written.
C13_InsideOnCanvasesThatFit ==
    FitsI32 /\ gPc \in { "pixel", "end", "done", "panic" } =>
        /\ gPc = "panic" => gBuild = "debug" /\ gAccess = NoAccess
        /\ gAccess # NoAccess =>
              /\ InBitmap(gAccess.ai)
              /\ RightCell(gAccess)
              /\ (gAccess.cov # 0 => InCanvas(gAccess.pi) /\ RightPixel(gAccess))
              /\ (gAccess.cov = 0 =>
                    \A i \in DOMAIN pixels :
                        ~(i \div cw = gAccess.y /\ i % cw = gAccess.x))
        /\ \A i \in DOMAIN pixels :
              /\ InCanvas(i)
              /\ (i % cw) - left \in 0..(mw - 1)
              /\ (i \div cw) - top \in 0..(mh - 1)

\* A bitmap that hangs over the top left corner: one cell is blended.
C13_FitsWitness ==
    /\ FitsI32
    /\ gPc = "done"
    /\ left < 0
    /\ top < 0
    /\ gAccess # NoAccess
    /\ gAccess.cov = 128
    /\ gAccess.pi = 0
    /\ gAccess.ai = mw * mh - 1

(***************************************************************************)
(* alpha_mul and blend_src_over over sampled colours.                      *)
(***************************************************************************)
\* The channel values tried: the ends, their neighbours and the middle.
ByteSamples == { 0, 1, 128, ByteMax - 1, ByteMax }

Colors == { << r, g, b, a >> : r \in ByteSamples, g \in ByteSamples,
                              b \in ByteSamples, a \in ByteSamples }

\* Premultiplied colours: no colour channel larger than the alpha.
Premultiplied == { c \in Colors : \A i \in 1..3 : c[i] <= c[4] }

\* The scales alpha_mul is called with: 256 - alpha, and a coverage.
Scales == { ByteBase - a : a \in ByteSamples } \cup ByteSamples

BlendInit ==
    /\ TypesetIdle
    /\ ShowIdle
    /\ GlyphIdle
    /\ bOut = NoOut
    /\ \/ /\ bPc = "alpha_mul"
          /\ bColor \in Colors
          /\ bScale \in Scales
          /\ bSrc = << 0, 0, 0, 0 >>
          /\ bDst = << 0, 0, 0, 0 >>
       \/ /\ bPc = "blend_src_over"
          /\ bSrc \in Premultiplied
          /\ bDst \in Colors
          /\ bColor = << 0, 0, 0, 0 >>
          /\ bScale = 0

AlphaMul ==
    /\ bPc = "alpha_mul"
    /\ bOut' = [fn |-> "alpha_mul"] @@ alpha_mul(bColor, bScale)
    /\ bPc' = "done"
    /\ UNCHANGED << bColor, bScale, bSrc, bDst >>

BlendSrcOver ==
    /\ bPc = "blend_src_over"
    /\ bOut' = [fn |-> "blend_src_over"] @@ blend_src_over(bSrc, bDst)
    /\ bPc' = "done"
    /\ UNCHANGED << bColor, bScale, bSrc, bDst >>

BlendNext ==
    \/ AlphaMul /\ UNCHANGED << vars, showVars, glyphVars >>
    \/ BlendSrcOver /\ UNCHANGED << vars, showVars, glyphVars >>

BlendSpec == BlendInit /\ [][BlendNext]_blendVars

\* C14: for every premultiplied source colour and every destination colour
\* blend_src_over(src, dst) = src + alpha_mul(dst, 256 - alpha(src)) does not
\* overflow 32 bits, and no channel of the result exceeds 255 or carries into
\* its neighbour: each is the source channel plus the destination channel
\* scaled by (256 - alpha) / 256.  alpha_mul with a scale in 0..=256 does not
\* overflow either and scales each channel by scale / 256.
C14_BlendStaysInChannels ==
    bPc = "done" =>
        /\ ~bOut.overflow
        /\ (bOut.fn = "blend_src_over" =>
              /\ \A i \in 1..3 : bOut.carries[i] = 0
              /\ \A i \in 1..4 :
                    /\ bSrc[i] + (bDst[i] * (ByteBase - bSrc[4])) \div ByteBase <= ByteMax
                    /\ bOut.value[i]
                         = bSrc[i] + (bDst[i] * (ByteBase - bSrc[4])) \div ByteBase)
        /\ (bOut.fn = "alpha_mul" =>
              /\ bScale \in 0..ByteBase
              /\ \A i \in 1..4 : bOut.value[i] = (bColor[i] * bScale) \div ByteBase
              /\ (bColor[4] = ByteMax =>
                    \A i \in 1..3 : bOut.value[i] <= bOut.value[4]))

\* A half-transparent source over white: every channel ends at 255 exactly.
C14_Witness ==
    /\ bPc = "done"
    /\ bOut.fn = "blend_src_over"
    /\ bSrc = << 128, 128, 128, 128 >>
    /\ bDst = White
    /\ bOut.value = White
====
